---- MODULE Spec2Model ----
(***************************************************************************)
(* The settings store of speech2text (src/src/speech2text/settings.py):    *)
(* SettingsManager instances working on one configuration directory that   *)
(* holds config.json and .key, plus one export file.                       *)
(*                                                                         *)
(* Python values are tagged records.  A dict is a function from keys to    *)
(* values.  The nested dicts of self.defaults are objects that             *)
(* self.defaults.copy() (a shallow copy) shares with self.settings: an     *)
(* entry of settings that still is that object is the value Ref(name), and *)
(* the object's content lives in defaults[name].  A dotted path is the     *)
(* sequence of its segments, i.e. the result of key.split('.').            *)
(***************************************************************************)
EXTENDS Integers, Sequences, FiniteSets, TLC

VARIABLES
    status,     \* per instance: "none" (not constructed) or "open"
    settings,   \* per instance: self.settings (top-level dict)
    defaults,   \* per instance: self.defaults (top-level dict, sections by content)
    encKey,     \* per instance: self._encryption_key
    keyFile,    \* content of <config_dir>/.key
    cfgFile,    \* content of <config_dir>/config.json
    expFile,    \* content of the export file
    nextKey,    \* number of keys derived so far (os.urandom salts are fresh)
    last,       \* the last operation: which, on which instance, and its outcome
    ops,        \* number of operations performed
    dlg         \* the settings dialog of the application (ModernSettingsDialog)

vars == <<status, settings, defaults, encKey, keyFile, cfgFile, expFile,
          nextKey, last, ops, dlg>>

(***************************************************************************)
(* Bounds of the model.                                                    *)
(***************************************************************************)
MaxOps == 4
MaxNonce == 1

Stores == {1, 2}
Nonces == 1..MaxNonce

(***************************************************************************)
(* Python / JSON values.                                                   *)
(***************************************************************************)
VStr(s) == [t |-> "str", s |-> s]
VInt(n) == [t |-> "int", n |-> n]
\* a float, in hundredths
VFloat(n) == [t |-> "float", n |-> n]
VBool(b) == [t |-> "bool", b |-> b]
VDict(d) == [t |-> "dict", d |-> d]
\* the dict object that is also self.defaults[name]
Ref(name) == [t |-> "ref", name |-> name]
EmptyDict == <<>>

\* key material: id names the 32 derived bytes, enc counts the base64url
\* encodings applied to them (0: the raw bytes)
KeyBytes(id, enc) == [id |-> id, enc |-> enc]
\* a str holding the text of key material (key.decode())
VKeyStr(k) == [t |-> "str", s |-> "<key>", key |-> k]
\* a str holding a Fernet token made under key id k for plaintext pt with
\* nonce iv, base64url-encoded enc times (the token itself is enc = 1)
VToken(k, pt, iv, enc) ==
    [t |-> "str", s |-> "<token>", tok |-> [k |-> k, pt |-> pt, iv |-> iv], enc |-> enc]

IsStr(v) == v.t = "str"
IsDictVal(v) == v.t = "dict"
IsKeyStr(v) == IsStr(v) /\ "key" \in DOMAIN v
IsToken(v) == IsStr(v) /\ "tok" \in DOMAIN v

\* Python truthiness: `not value`
Falsy(v) ==
    \/ v.t = "str" /\ v.s = ""
    \/ v.t = "int" /\ v.n = 0
    \/ v.t = "float" /\ v.n = 0
    \/ v.t = "bool" /\ ~v.b
    \/ v.t = "dict" /\ DOMAIN v.d = {}

\* results of operations that may raise
Ok(v) == [exc |-> "", val |-> v]
Raise(e) == [exc |-> e, val |-> VStr("")]

(***************************************************************************)
(* self.defaults, as built by __init__.                                    *)
(***************************************************************************)
DefaultsTable ==
    [api_key |-> VStr(""),
     audio |-> VDict([sample_rate |-> VInt(44100), channels |-> VInt(1),
                      chunk_size |-> VInt(1024), format |-> VStr("paInt16")]),
     transcription |-> VDict([language |-> VStr("en"), model |-> VStr("whisper-1"),
                              temperature |-> VFloat(0), prompt |-> VStr("")]),
     ui |-> VDict([window_geometry |-> VStr("600x500"), theme |-> VStr("default")]),
     output |-> VDict([auto_save |-> VBool(FALSE),
                       save_directory |-> VStr("~/Documents"),
                       file_format |-> VStr("txt")])]

\* self.defaults.copy(): a new top-level dict whose nested dicts are the
\* very objects of self.defaults
ShallowCopyDefaults(dflt) ==
    [k \in DOMAIN dflt |-> IF IsDictVal(dflt[k]) THEN Ref(k) ELSE dflt[k]]

\* the value an entry of settings denotes
Deref(dflt, v) == IF v.t = "ref" THEN dflt[v.name] ELSE v

\* the document as json.dump sees it
Resolved(sett, dflt) == [k \in DOMAIN sett |-> Deref(dflt, sett[k])]

(***************************************************************************)
(* base64 and Fernet.                                                      *)
(***************************************************************************)
\* base64.urlsafe_b64encode on key material
B64EncodeKey(k) == KeyBytes(k.id, k.enc + 1)

\* base64.urlsafe_b64decode(key_data["key"].encode())
B64DecodeKeyStr(v) ==
    IF ~IsStr(v) THEN Raise("AttributeError")
    ELSE IF IsKeyStr(v) /\ v.key.enc >= 1 THEN Ok(KeyBytes(v.key.id, v.key.enc - 1))
    ELSE Raise("binascii.Error")

\* Fernet(key) accepts the base64url text of 32 bytes and nothing else
FernetUsable(k) == k.enc = 1

\* _encrypt_value
EncryptValue(key, value, iv) ==
    IF Falsy(value) THEN Ok(VStr(""))
    ELSE IF ~FernetUsable(key) THEN Raise("ValueError")
    ELSE Ok(VToken(key.id, value.s, iv, 2))

\* the body of the try block of _decrypt_value
DecryptTry(key, v) ==
    IF ~FernetUsable(key) THEN Raise("ValueError")
    ELSE IF ~IsStr(v) THEN Raise("AttributeError")
    ELSE IF ~IsToken(v) \/ v.enc # 2 \/ v.tok.k # key.id THEN Raise("InvalidToken")
    ELSE Ok(VStr(v.tok.pt))

\* _decrypt_value without its except clause
DecryptValueUncaught(key, v) ==
    IF Falsy(v) THEN Ok(VStr("")) ELSE DecryptTry(key, v)

\* _decrypt_value
DecryptValue(key, v) ==
    IF Falsy(v) THEN Ok(VStr(""))
    ELSE LET r == DecryptTry(key, v)
         IN  IF r.exc # "" THEN Ok(VStr("")) ELSE r

(***************************************************************************)
(* _deep_update, get and set.                                              *)
(***************************************************************************)
\* _deep_update that keeps the target's value where the key exists already
DeepUpdateKeepTarget(target, source) ==
    [k \in DOMAIN target \cup DOMAIN source |->
        IF k \in DOMAIN target THEN target[k] ELSE source[k]]

RECURSIVE DeepUpdate(_, _)
\* _deep_update on dicts that hold no shared object
DeepUpdate(target, source) ==
    [k \in DOMAIN target \cup DOMAIN source |->
        IF k \notin DOMAIN source THEN target[k]
        ELSE IF k \in DOMAIN target /\ IsDictVal(target[k]) /\ IsDictVal(source[k])
             THEN VDict(DeepUpdate(target[k].d, source[k].d))
             ELSE source[k]]

\* _deep_update without the recursion (target.update(source))
DeepUpdateSettingsShallow(sett, dflt, source) ==
    [sett |-> [k \in DOMAIN sett \cup DOMAIN source |->
                 IF k \in DOMAIN source THEN source[k] ELSE sett[k]],
     dflt |-> dflt]

\* _deep_update(self.settings, source): where settings holds a shared
\* object, the recursive call updates that object, i.e. self.defaults too
DeepUpdateSettings(sett, dflt, source) ==
    LET merged(k) == k \in DOMAIN source /\ k \in DOMAIN sett
                     /\ IsDictVal(Deref(dflt, sett[k])) /\ IsDictVal(source[k])
    IN  [sett |-> [k \in DOMAIN sett \cup DOMAIN source |->
                     IF k \notin DOMAIN source THEN sett[k]
                     ELSE IF merged(k)
                          THEN IF sett[k].t = "ref" THEN sett[k]
                               ELSE VDict(DeepUpdate(sett[k].d, source[k].d))
                          ELSE source[k]],
         dflt |-> [n \in DOMAIN dflt |->
                     IF n \in DOMAIN sett /\ sett[n] = Ref(n) /\ merged(n)
                     THEN VDict(DeepUpdate(dflt[n].d, source[n].d))
                     ELSE dflt[n]]]

RECURSIVE GetInUnchecked(_, _, _)
\* the loop of get without its isinstance and membership test: value[k]
\* raises on a value that is no dict or has no key k
GetInUnchecked(value, keys, default) ==
    IF keys = <<>> THEN value
    ELSE IF ~IsDictVal(value) THEN [t |-> "raised", exc |-> "TypeError"]
    ELSE IF Head(keys) \notin DOMAIN value.d THEN [t |-> "raised", exc |-> "KeyError"]
    ELSE GetInUnchecked(value.d[Head(keys)], Tail(keys), default)

RECURSIVE GetIn(_, _, _)
\* the loop of get on an unshared value
GetIn(value, keys, default) ==
    IF keys = <<>> THEN value
    ELSE IF IsDictVal(value) /\ Head(keys) \in DOMAIN value.d
         THEN GetIn(value.d[Head(keys)], Tail(keys), default)
         ELSE default

\* get(key, default)
Get(sett, dflt, keys, default) ==
    IF Head(keys) \in DOMAIN sett
    THEN GetIn(Deref(dflt, sett[Head(keys)]), Tail(keys), default)
    ELSE default

RECURSIVE SetIn(_, _, _)
\* set below the first segment: target is the value reached so far, keys
\* the remaining segments; a target that is no dict raises TypeError
SetIn(target, keys, value) ==
    IF ~IsDictVal(target) THEN Raise("TypeError")
    ELSE IF Len(keys) = 1 THEN Ok(VDict([k \in DOMAIN target.d \cup {keys[1]} |->
                                            IF k = keys[1] THEN value ELSE target.d[k]]))
    ELSE LET k1 == Head(keys)
             child == IF k1 \in DOMAIN target.d THEN target.d[k1] ELSE VDict(EmptyDict)
             r == SetIn(child, Tail(keys), value)
         IN  IF r.exc # "" THEN r
             ELSE Ok(VDict([k \in DOMAIN target.d \cup {k1} |->
                              IF k = k1 THEN r.val ELSE target.d[k]]))

\* set(key, value): the new settings and defaults, or the exception
SetPath(sett, dflt, keys, value) ==
    LET k1 == Head(keys)
        same == [exc |-> "", sett |-> sett, dflt |-> dflt]
    IN  IF Len(keys) = 1
        THEN [same EXCEPT !.sett = [k \in DOMAIN sett \cup {k1} |->
                                       IF k = k1 THEN value ELSE sett[k]]]
        ELSE LET cur == IF k1 \in DOMAIN sett THEN sett[k1] ELSE VDict(EmptyDict)
                 r == SetIn(Deref(dflt, cur), Tail(keys), value)
             IN  IF r.exc # "" THEN [same EXCEPT !.exc = r.exc]
                 ELSE IF cur.t = "ref"
                      THEN [same EXCEPT !.dflt = [dflt EXCEPT ![cur.name] = r.val]]
                      ELSE [same EXCEPT !.sett = [k \in DOMAIN sett \cup {k1} |->
                                                     IF k = k1 THEN r.val ELSE sett[k]]]

(***************************************************************************)
(* Files.  A file is absent, or holds text that is no JSON ("invalid": an  *)
(* empty or truncated file too), bytes that are no UTF-8 ("badenc"), JSON  *)
(* whose top level is a list ("nonmap"), or a JSON mapping ("map").  A     *)
(* file that cannot be opened for reading is "unreadable".                 *)
(***************************************************************************)
File(kind) == [kind |-> kind]
MapFile(doc) == [kind |-> "map", doc |-> doc]

\* the key of an earlier installation, as .key stores it
OldKeyId == 0
OldKeyText == VKeyStr(KeyBytes(OldKeyId, 1))

\* .key files a store may find
KeyFiles ==
    {File("absent"), File("invalid"), File("nonmap"),
     MapFile([salt |-> VStr("<salt>")]),
     MapFile([key |-> VInt(5), salt |-> VStr("<salt>")]),
     MapFile([key |-> VStr("not-base64!"), salt |-> VStr("<salt>")]),
     MapFile([key |-> OldKeyText, salt |-> VStr("<salt>")])}

\* config.json files a store may find
ConfigFiles ==
    {File("absent"), File("invalid"), File("badenc"), File("nonmap"),
     MapFile([audio |-> VDict([sample_rate |-> VInt(16000)])]),
     MapFile([audio |-> VInt(5)]),
     MapFile([api_key |-> VToken(OldKeyId, "sk-old", 1, 2),
              legacy |-> VBool(TRUE)])}

\* files handed to import_settings
ImportFiles ==
    {File("unreadable"), File("invalid"), File("badenc"), File("nonmap"),
     MapFile([api_key |-> VStr("sk-forged"),
              audio |-> VDict([channels |-> VInt(2)])]),
     MapFile([audio |-> VInt(5), extra |-> VDict([x |-> VInt(1)])])}

\* arguments of set
SetPaths ==
    {<<"api_key">>, <<"audio">>, <<"audio", "sample_rate">>,
     <<"api_key", "x">>, <<"extra", "x">>}
SetValues == {VStr("sk-plain"), VInt(16000)}

\* arguments of set_api_key
Plaintexts == {"", "sk-secret", "sk-other"}

(***************************************************************************)
(* Construction: _load_settings and _get_encryption_key.                   *)
(***************************************************************************)
\* _load_settings merging the wrong way round: the defaults win
LoadSettingsDefaultsWin(cfg, dflt) ==
    LET copy == [exc |-> "", sett |-> ShallowCopyDefaults(dflt), dflt |-> dflt]
    IN  CASE cfg.kind = "absent" -> copy
          [] cfg.kind = "invalid" -> copy
          [] cfg.kind = "badenc" -> [copy EXCEPT !.exc = "UnicodeDecodeError"]
          [] cfg.kind = "nonmap" -> [copy EXCEPT !.exc = "AttributeError"]
          [] cfg.kind = "map" ->
                [copy EXCEPT !.sett = [k \in DOMAIN dflt \cup DOMAIN cfg.doc |->
                                          IF k \in DOMAIN dflt THEN copy.sett[k]
                                          ELSE cfg.doc[k]]]

\* _load_settings returning an empty document where it has no file to merge
LoadSettingsEmptyFallback(cfg, dflt) ==
    LET copy == [exc |-> "", sett |-> ShallowCopyDefaults(dflt), dflt |-> dflt]
        empty == [exc |-> "", sett |-> EmptyDict, dflt |-> dflt]
    IN  CASE cfg.kind = "absent" -> copy
          [] cfg.kind = "invalid" -> empty
          [] cfg.kind = "badenc" -> [copy EXCEPT !.exc = "UnicodeDecodeError"]
          [] cfg.kind = "nonmap" -> [copy EXCEPT !.exc = "AttributeError"]
          [] cfg.kind = "map" ->
                LET u == DeepUpdateSettings(copy.sett, dflt, cfg.doc)
                IN  [exc |-> "", sett |-> u.sett, dflt |-> u.dflt]

\* _load_settings: the settings and defaults it leaves, or the exception
LoadSettings(cfg, dflt) ==
    LET copy == [exc |-> "", sett |-> ShallowCopyDefaults(dflt), dflt |-> dflt]
    IN  CASE cfg.kind = "absent" -> copy
          [] cfg.kind = "invalid" -> copy
          [] cfg.kind = "badenc" -> [copy EXCEPT !.exc = "UnicodeDecodeError"]
          [] cfg.kind = "nonmap" -> [copy EXCEPT !.exc = "AttributeError"]
          [] cfg.kind = "map" ->
                LET u == DeepUpdateSettings(copy.sett, dflt, cfg.doc)
                IN  [exc |-> "", sett |-> u.sett, dflt |-> u.dflt]

\* the key file written after deriving key number id
NewKey(id) == B64EncodeKey(KeyBytes(id, 0))
NewKeyFile(id) == MapFile([key |-> VKeyStr(NewKey(id)), salt |-> VStr("<salt>")])

\* _get_encryption_key: the key returned, whether a key was generated (and
\* the key file written), or the exception
GetEncryptionKey(kf, id) ==
    LET generate == [exc |-> "", key |-> NewKey(id), generated |-> TRUE]
        fail(e) == [exc |-> e, key |-> KeyBytes(id, 0), generated |-> FALSE]
    IN  CASE kf.kind = "absent" -> generate
          [] kf.kind = "invalid" -> generate
          [] kf.kind = "nonmap" -> fail("TypeError")
          [] kf.kind = "map" ->
                IF "key" \notin DOMAIN kf.doc THEN generate
                ELSE LET r == B64DecodeKeyStr(kf.doc.key)
                     IN  IF r.exc # "" THEN fail(r.exc)
                         ELSE [exc |-> "", key |-> r.val, generated |-> FALSE]

NoKey == KeyBytes(-1, 0)

\* what a store finds in .key when it opens (recorded in `last`)
KeyFileState(kf) ==
    CASE kf.kind # "map" -> kf.kind
      [] OTHER -> IF "key" \notin DOMAIN kf.doc THEN "nokey"
                  ELSE IF ~IsStr(kf.doc.key) THEN "keynotstr"
                  ELSE IF ~IsKeyStr(kf.doc.key) THEN "keybadb64"
                  ELSE "good"

Did(op, i, arg, res, exc) ==
    [op |-> op, store |-> i, arg |-> arg, res |-> res, exc |-> exc]
\* the record of a set, with its arguments
DidSet(i, keys, value, res, exc) ==
    [op |-> "set", store |-> i, arg |-> keys[1], res |-> res, exc |-> exc,
     keys |-> keys, value |-> value]
\* the record of an import_settings, with the file it read
DidImport(i, f, res, exc) ==
    [op |-> "import", store |-> i, arg |-> f.kind, res |-> res, exc |-> exc,
     file |-> f]

\* the record of a save_settings, with the config.json it found
DidSave(i, old, res) ==
    [op |-> "save", store |-> i, arg |-> "", res |-> res, exc |-> "", old |-> old]

\* no settings dialog: self.dialog is None
NoDialog == [open |-> FALSE]

Init ==
    /\ status = [i \in Stores |-> "none"]
    /\ settings = [i \in Stores |-> EmptyDict]
    /\ defaults = [i \in Stores |-> EmptyDict]
    /\ encKey = [i \in Stores |-> NoKey]
    /\ keyFile \in KeyFiles
    /\ cfgFile \in ConfigFiles
    /\ expFile = File("absent")
    /\ nextKey = 1
    /\ last = Did("init", 0, "", "none", "")
    /\ ops = 0
    /\ dlg = NoDialog

\* SettingsManager(): __init__.  Instances are numbered in the order of their
\* construction; a construction that raises leaves no instance.
Open(i) ==
    /\ ops < MaxOps
    /\ status[i] = "none"
    /\ \A j \in Stores : j < i => status[j] = "open"
    /\ ops' = ops + 1
    /\ LET ld == LoadSettings(cfgFile, DefaultsTable)
           gk == GetEncryptionKey(keyFile, nextKey)
       IN  IF ld.exc # "" \/ gk.exc # ""
           THEN /\ last' = Did("open", i, KeyFileState(keyFile), "raised",
                               IF ld.exc # "" THEN ld.exc ELSE gk.exc)
                /\ UNCHANGED <<status, settings, defaults, encKey, keyFile, nextKey>>
           ELSE /\ status' = [status EXCEPT ![i] = "open"]
                /\ settings' = [settings EXCEPT ![i] = ld.sett]
                /\ defaults' = [defaults EXCEPT ![i] = ld.dflt]
                /\ encKey' = [encKey EXCEPT ![i] = gk.key]
                /\ keyFile' = IF gk.generated THEN NewKeyFile(nextKey) ELSE keyFile
                /\ nextKey' = IF gk.generated THEN nextKey + 1 ELSE nextKey
                /\ last' = Did("open", i, KeyFileState(keyFile), "ok", "")
    /\ UNCHANGED <<cfgFile, expFile>>
    /\ UNCHANGED dlg

(***************************************************************************)
(* The operations of an open store.                                        *)
(***************************************************************************)
\* set(key, value)
Set(i, keys, value) ==
    /\ ops < MaxOps
    /\ status[i] = "open"
    /\ ops' = ops + 1
    /\ LET r == SetPath(settings[i], defaults[i], keys, value)
       IN  IF r.exc # ""
           THEN /\ last' = DidSet(i, keys, value, "raised", r.exc)
                /\ UNCHANGED <<settings, defaults>>
           ELSE /\ settings' = [settings EXCEPT ![i] = r.sett]
                /\ defaults' = [defaults EXCEPT ![i] = r.dflt]
                /\ last' = DidSet(i, keys, value, "ok", "")
    /\ UNCHANGED <<status, encKey, keyFile, cfgFile, expFile, nextKey>>
    /\ UNCHANGED dlg

\* get_api_key()
GetApiKey(i) ==
    DecryptValue(encKey[i], Get(settings[i], defaults[i], <<"api_key">>, VStr("")))

\* set_api_key(api_key); iv is the nonce Fernet draws
SetApiKey(i, pt, iv) ==
    /\ ops < MaxOps
    /\ status[i] = "open"
    /\ ops' = ops + 1
    /\ LET e == EncryptValue(encKey[i], VStr(pt), iv)
           r == SetPath(settings[i], defaults[i], <<"api_key">>, e.val)
       IN  IF e.exc # ""
           THEN /\ last' = Did("set_api_key", i, pt, "raised", e.exc)
                /\ UNCHANGED <<settings, defaults>>
           ELSE /\ settings' = [settings EXCEPT ![i] = r.sett]
                /\ defaults' = [defaults EXCEPT ![i] = r.dflt]
                /\ last' = Did("set_api_key", i, pt, "ok", "")
    /\ UNCHANGED <<status, encKey, keyFile, cfgFile, expFile, nextKey>>
    /\ UNCHANGED dlg

\* a write that merges the document into the one the file holds
WriteOutcomesMerged(old, doc) ==
    {[file |-> old, res |-> "false"],
     [file |-> File("invalid"), res |-> "false"],
     [file |-> IF old.kind = "map" THEN MapFile(DeepUpdate(old.doc, doc)) ELSE MapFile(doc),
      res |-> "true"]}

\* what open(path, 'w') followed by json.dump(doc) leaves in a file and
\* returns: the open fails (IOError, file untouched), the write fails part
\* way (IOError, file truncated), or the document is written
WriteOutcomes(old, doc) ==
    {[file |-> old, res |-> "false"],
     [file |-> File("invalid"), res |-> "false"],
     [file |-> MapFile(doc), res |-> "true"]}

\* save_settings()
Save(i) ==
    /\ ops < MaxOps
    /\ status[i] = "open"
    /\ ops' = ops + 1
    /\ \E w \in WriteOutcomes(cfgFile, Resolved(settings[i], defaults[i])) :
          /\ cfgFile' = w.file
          /\ last' = DidSave(i, cfgFile, w.res)
    /\ UNCHANGED <<status, settings, defaults, encKey, keyFile, expFile, nextKey>>
    /\ UNCHANGED dlg

\* reset_to_defaults() followed by a write of config.json
ResetAndSave(i) ==
    /\ ops < MaxOps
    /\ status[i] = "open"
    /\ ops' = ops + 1
    /\ settings' = [settings EXCEPT ![i] = ShallowCopyDefaults(defaults[i])]
    /\ cfgFile' = MapFile(Resolved(ShallowCopyDefaults(defaults[i]), defaults[i]))
    /\ last' = Did("reset", i, "", "ok", "")
    /\ UNCHANGED <<status, defaults, encKey, keyFile, expFile, nextKey>>
    /\ UNCHANGED dlg

\* reset_to_defaults()
Reset(i) ==
    /\ ops < MaxOps
    /\ status[i] = "open"
    /\ ops' = ops + 1
    /\ settings' = [settings EXCEPT ![i] = ShallowCopyDefaults(defaults[i])]
    /\ last' = Did("reset", i, "", "ok", "")
    /\ UNCHANGED <<status, defaults, encKey, keyFile, cfgFile, expFile, nextKey>>
    /\ UNCHANGED dlg

\* export_data without the line that blanks api_key
ExportDataLeaky(sett, dflt) == Resolved(sett, dflt)

\* export_data of export_settings
ExportData(sett, dflt) ==
    [k \in DOMAIN sett \cup {"api_key"} |->
        IF k = "api_key" THEN VStr("") ELSE Deref(dflt, sett[k])]

\* export_settings blanking api_key in self.settings itself (no copy)
ExportNoCopy(i) ==
    /\ ops < MaxOps
    /\ status[i] = "open"
    /\ ops' = ops + 1
    /\ settings' = [settings EXCEPT ![i] =
                       [k \in DOMAIN settings[i] \cup {"api_key"} |->
                           IF k = "api_key" THEN VStr("") ELSE settings[i][k]]]
    /\ \E w \in WriteOutcomes(expFile, ExportData(settings[i], defaults[i])) :
          /\ expFile' = w.file
          /\ last' = Did("export", i, "", w.res, "")
    /\ UNCHANGED <<status, defaults, encKey, keyFile, cfgFile, nextKey>>
    /\ UNCHANGED dlg

\* export_settings(file_path)
Export(i) ==
    /\ ops < MaxOps
    /\ status[i] = "open"
    /\ ops' = ops + 1
    /\ \E w \in WriteOutcomes(expFile, ExportData(settings[i], defaults[i])) :
          /\ expFile' = w.file
          /\ last' = Did("export", i, "", w.res, "")
    /\ UNCHANGED <<status, settings, defaults, encKey, keyFile, cfgFile, nextKey>>
    /\ UNCHANGED dlg

\* imported_settings without the deletion of api_key
StripApiKeyKept(doc) == doc

\* imported_settings after `del imported_settings["api_key"]`
StripApiKey(doc) == [k \in DOMAIN doc \ {"api_key"} |-> doc[k]]

\* import_settings catching IOError only
ImportSettingsUncaught(sett, dflt, f) ==
    LET same(res, exc) == [res |-> res, exc |-> exc, sett |-> sett, dflt |-> dflt]
    IN  CASE f.kind \in {"unreadable", "absent"} -> same("false", "")
          [] f.kind = "invalid" -> same("raised", "JSONDecodeError")
          [] f.kind = "badenc" -> same("raised", "UnicodeDecodeError")
          [] f.kind = "nonmap" -> same("raised", "AttributeError")
          [] f.kind = "map" ->
                LET u == DeepUpdateSettings(sett, dflt, StripApiKey(f.doc))
                IN  [res |-> "true", exc |-> "", sett |-> u.sett, dflt |-> u.dflt]

\* import_settings(file_path) on a file f: the result and the settings and
\* defaults it leaves
ImportSettings(sett, dflt, f) ==
    LET same(res, exc) == [res |-> res, exc |-> exc, sett |-> sett, dflt |-> dflt]
    IN  CASE f.kind \in {"unreadable", "absent"} -> same("false", "")
          [] f.kind = "invalid" -> same("false", "")
          [] f.kind = "badenc" -> same("raised", "UnicodeDecodeError")
          [] f.kind = "nonmap" -> same("raised", "AttributeError")
          [] f.kind = "map" ->
                LET u == DeepUpdateSettings(sett, dflt, StripApiKey(f.doc))
                IN  [res |-> "true", exc |-> "", sett |-> u.sett, dflt |-> u.dflt]

Import(i, f) ==
    /\ ops < MaxOps
    /\ status[i] = "open"
    /\ ops' = ops + 1
    /\ LET r == ImportSettings(settings[i], defaults[i], f)
       IN  /\ settings' = [settings EXCEPT ![i] = r.sett]
           /\ defaults' = [defaults EXCEPT ![i] = r.dflt]
           /\ last' = DidImport(i, f, r.res, r.exc)
    /\ UNCHANGED <<status, encKey, keyFile, cfgFile, expFile, nextKey>>
    /\ UNCHANGED dlg

Next ==
    \E i \in Stores :
        \/ Open(i)
        \/ \E keys \in SetPaths, value \in SetValues : Set(i, keys, value)
        \/ \E pt \in Plaintexts, iv \in Nonces : SetApiKey(i, pt, iv)
        \/ Save(i)
        \/ Reset(i)
        \/ Export(i)
        \/ \E f \in ImportFiles \cup {expFile} : Import(i, f)

Spec == Init /\ [][Next]_vars

(***************************************************************************)
(* Properties.                                                             *)
(***************************************************************************)
IsOpen(i) == status[i] = "open"
StoredApiKey(i) == Get(settings[i], defaults[i], <<"api_key">>, VStr(""))
Document(i) == Resolved(settings[i], defaults[i])
JustOpened(i) == last.op = "open" /\ last.store = i /\ last.res = "ok"

\* config.json holds a credential that a store of this directory encrypted
\* with set_api_key and saved, and .key holds the key it was encrypted under
SavedCredentialUnderKeyFile ==
    /\ cfgFile.kind = "map" /\ "api_key" \in DOMAIN cfgFile.doc
    /\ IsToken(cfgFile.doc.api_key)
    /\ cfgFile.doc.api_key.tok.k # OldKeyId
    /\ cfgFile.doc.api_key.tok.pt # ""
    /\ keyFile = NewKeyFile(cfgFile.doc.api_key.tok.k)

\* C1: a store opened on the directory where a store saved the credential s
\* (config.json and .key as that store left them) returns s from
\* get_api_key().
C1_KeyReusedAcrossStores ==
    \A j \in Stores :
        (JustOpened(j) /\ SavedCredentialUnderKeyFile)
            => GetApiKey(j).val = VStr(cfgFile.doc.api_key.tok.pt)

\* C2: in every store, whether its key was generated or loaded,
\* set_api_key(s) does not raise and get_api_key() then returns s.
C2_SetThenGetApiKey ==
    last.op = "set_api_key"
        => /\ last.res = "ok"
           /\ GetApiKey(last.store) = Ok(VStr(last.arg))

\* C3: the api_key a save writes to config.json is the empty string or a
\* ciphertext of the encryption primitive, never a plaintext.
C3_NoPlaintextOnDisk ==
    (last.op = "save" /\ last.res = "true")
        => /\ "api_key" \in DOMAIN cfgFile.doc
           /\ \/ cfgFile.doc.api_key = VStr("")
              \/ IsToken(cfgFile.doc.api_key)

\* two documents that differ at most in api_key
SameButApiKey(d1, d2) ==
    /\ DOMAIN d1 = DOMAIN d2
    /\ \A k \in DOMAIN d1 \ {"api_key"} : d1[k] = d2[k]

\* C4: an export that returns true wrote a file whose api_key is "", and two
\* stores that differ only in their stored api_key export identical data.
C4_ExportStripsCredential ==
    /\ (last.op = "export" /\ last.res = "true")
          => /\ expFile.kind = "map"
             /\ "api_key" \in DOMAIN expFile.doc
             /\ expFile.doc.api_key = VStr("")
             /\ SameButApiKey(expFile.doc, Document(last.store))
    /\ \A i, j \in Stores :
          (IsOpen(i) /\ IsOpen(j) /\ SameButApiKey(Document(i), Document(j)))
             => ExportData(settings[i], defaults[i]) = ExportData(settings[j], defaults[j])

\* a store holding a credential was exported successfully while another
\* store differs from it in api_key only
C4_Witness ==
    /\ last.op = "export" /\ last.res = "true"
    /\ IsToken(StoredApiKey(last.store))
    /\ \E j \in Stores :
          /\ IsOpen(j)
          /\ SameButApiKey(Document(j), Document(last.store))
          /\ StoredApiKey(j) # StoredApiKey(last.store)

\* C5: import_settings leaves the in-memory api_key entry and the result of
\* get_api_key() as they were, whatever the imported file carries.
C5_ImportKeepsCredential ==
    [][last'.op = "import"
          => LET i == last'.store
             IN  /\ Get(settings'[i], defaults'[i], <<"api_key">>, VStr("")) = StoredApiKey(i)
                 /\ DecryptValue(encKey'[i],
                                 Get(settings'[i], defaults'[i], <<"api_key">>, VStr("")))
                       = GetApiKey(i)]_vars

\* a file carrying api_key (and audio.channels = 2) was imported into a store
\* that holds a credential
C5_Witness ==
    /\ last.op = "import" /\ last.res = "true"
    /\ Get(settings[last.store], defaults[last.store], <<"audio", "channels">>, VStr(""))
          = VInt(2)
    /\ IsToken(StoredApiKey(last.store))
    /\ GetApiKey(last.store).val # VStr("")

\* C6: get_api_key never raises, and returns "" when the stored value is
\* empty, is no string, is no ciphertext of the in-memory key, or the
\* in-memory key is unusable.
C6_GetApiKeyNeverRaises ==
    \A i \in Stores :
        IsOpen(i) =>
            LET v == StoredApiKey(i)
                r == GetApiKey(i)
            IN  /\ r.exc = ""
                /\ IsStr(r.val)
                /\ (\/ Falsy(v)
                    \/ ~IsStr(v)
                    \/ ~IsToken(v)
                    \/ (IsToken(v) /\ v.tok.k # encKey[i].id)
                    \/ ~FernetUsable(encKey[i]))
                      => r.val = VStr("")

\* a store whose key was regenerated holds a ciphertext made under the key
\* of before
C6_Witness ==
    \E i \in Stores :
        /\ IsOpen(i)
        /\ FernetUsable(encKey[i])
        /\ IsToken(StoredApiKey(i))
        /\ StoredApiKey(i).tok.k # encKey[i].id

\* C7: after reset_to_defaults every default-schema path returns its default,
\* api_key is "" and keys outside the default schema are gone.
C7_ResetRestoresDefaults ==
    last.op = "reset" => Document(last.store) = DefaultsTable

\* C8: with .key absent or corrupt (and a config.json that loads), opening
\* the store does not raise, generates a key and writes a well-formed .key.
C8_CorruptKeyFileRegenerated ==
    (/\ last.op = "open"
     /\ last.arg \in {"absent", "invalid", "nonmap", "nokey", "keynotstr", "keybadb64"}
     /\ cfgFile.kind \in {"absent", "invalid", "map"})
        => /\ last.res = "ok"
           /\ KeyFileState(keyFile) = "good"
           /\ encKey[last.store].id = keyFile.doc.key.key.id

\* the documents in which every key of the default schema is present
HasDefaultSchemaKeys(doc) ==
    /\ DOMAIN DefaultsTable \subseteq DOMAIN doc
    /\ \A k \in DOMAIN DefaultsTable :
          IsDictVal(DefaultsTable[k])
             => /\ IsDictVal(doc[k])
                /\ DOMAIN DefaultsTable[k].d \subseteq DOMAIN doc[k].d

\* C9: with config.json absent, empty, not JSON or JSON that is no mapping
\* (and a .key that does not stop the open), the store opens and its
\* document has every key of the default schema.
C9_OpenToleratesConfig ==
    (/\ last.op = "open"
     /\ last.arg \in {"absent", "invalid", "nokey", "good"}
     /\ cfgFile.kind \in {"absent", "invalid", "nonmap"})
        => /\ last.res = "ok"
           /\ HasDefaultSchemaKeys(Document(last.store))

C11_FailuresAreFalse ==
    last.op \in {"save", "export", "import"} => last.res \in {"true", "false"}

RECURSIVE PathsOf(_)
\* the paths (sequences of keys) that lead to a value inside v, the empty
\* path included
PathsOf(v) ==
    IF ~IsDictVal(v) THEN {<<>>}
    ELSE {<<>>} \cup UNION {{<<k>> \o p : p \in PathsOf(v.d[k])} : k \in DOMAIN v.d}

\* the dotted paths of a document
DocPaths(doc) == PathsOf(VDict(doc)) \ {<<>>}
\* what get(p) returns on a document (None when there is no value)
None == [t |-> "none"]
DocGet(doc, p) == GetIn(VDict(doc), p, None)

\* a save returned true and the next operation opens a new store
SaveThenReopen == /\ last.op = "save" /\ last.res = "true"
                  /\ last'.op = "open" /\ last'.res = "ok"

\* C12, as stated: every path that has a value in the saving store when it
\* saves has the same value in a store opened next on the same directory.
C12_EveryPathRoundTrips ==
    [][SaveThenReopen
          => \A p \in DocPaths(Document(last.store)) :
                Get(settings'[last'.store], defaults'[last'.store], p, None)
                   = DocGet(Document(last.store), p)]_vars

\* C12, amended: every path that holds a value other than a mapping in the
\* saving store when it saves holds the same value in the store opened next
\* (so get(p) returns v after set(p, v) with such a v).
C12_LeafPathsRoundTrip ==
    [][SaveThenReopen
          => \A p \in DocPaths(Document(last.store)) :
                ~IsDictVal(DocGet(Document(last.store), p))
                   => Get(settings'[last'.store], defaults'[last'.store], p, None)
                         = DocGet(Document(last.store), p)]_vars

\* a second store was opened on a config.json saved after set("extra.x", 16000)
C12_Witness ==
    /\ JustOpened(2)
    /\ cfgFile.kind = "map" /\ cfgFile.doc = Document(1)
    /\ Get(settings[2], defaults[2], <<"extra", "x">>, None) = VInt(16000)
    /\ Get(settings[1], defaults[1], <<"extra", "x">>, None) = VInt(16000)

\* the documents that hold, at every top-level and nested key of the default
\* schema, a value of the type of its default
HasDefaultSchemaTypes(doc) ==
    \A k \in DOMAIN DefaultsTable :
        /\ k \in DOMAIN doc
        /\ doc[k].t = DefaultsTable[k].t
        /\ IsDictVal(DefaultsTable[k])
              => \A l \in DOMAIN DefaultsTable[k].d :
                    /\ l \in DOMAIN doc[k].d
                    /\ doc[k].d[l].t = DefaultsTable[k].d[l].t

\* C13: after loading a config.json whose top level is a mapping, every key
\* of the default schema holds a value of the type of its default, and the
\* keys of the file outside the default schema are preserved.
C13_LoadKeepsSchemaTypes ==
    \A i \in Stores :
        (JustOpened(i) /\ cfgFile.kind = "map")
            => /\ HasDefaultSchemaTypes(Document(i))
               /\ \A k \in DOMAIN cfgFile.doc \ DOMAIN DefaultsTable :
                     /\ k \in DOMAIN Document(i)
                     /\ Document(i)[k] = cfgFile.doc[k]

\* C14: after loading a config.json that overrides some leaves of a default
\* section, get returns the loaded value for each overridden leaf and the
\* default for every sibling leaf (and for the sections the file leaves out).
C14_LoadMergesRecursively ==
    \A i \in Stores :
        (JustOpened(i) /\ cfgFile.kind = "map")
            => \A k \in DOMAIN DefaultsTable :
                  (/\ IsDictVal(DefaultsTable[k])
                   /\ k \in DOMAIN cfgFile.doc => IsDictVal(cfgFile.doc[k]))
                     => \A l \in DOMAIN DefaultsTable[k].d :
                           Get(settings[i], defaults[i], <<k, l>>, None)
                              = IF k \in DOMAIN cfgFile.doc /\ l \in DOMAIN cfgFile.doc[k].d
                                THEN cfgFile.doc[k].d[l]
                                ELSE DefaultsTable[k].d[l]

\* a store was opened on a config.json that overrides audio.sample_rate only
C14_Witness ==
    \E i \in Stores :
        /\ JustOpened(i)
        /\ cfgFile = MapFile([audio |-> VDict([sample_rate |-> VInt(16000)])])
        /\ Get(settings[i], defaults[i], <<"audio", "sample_rate">>, None) = VInt(16000)
        /\ Get(settings[i], defaults[i], <<"audio", "channels">>, None) = VInt(1)

\* the documented default of every default-schema path
DocumentedDefaults ==
    {<<<<"api_key">>, VStr("")>>,
     <<<<"audio", "sample_rate">>, VInt(44100)>>,
     <<<<"audio", "channels">>, VInt(1)>>,
     <<<<"audio", "chunk_size">>, VInt(1024)>>,
     <<<<"audio", "format">>, VStr("paInt16")>>,
     <<<<"transcription", "language">>, VStr("en")>>,
     <<<<"transcription", "model">>, VStr("whisper-1")>>,
     <<<<"transcription", "temperature">>, VFloat(0)>>,
     <<<<"transcription", "prompt">>, VStr("")>>,
     <<<<"ui", "window_geometry">>, VStr("600x500")>>,
     <<<<"ui", "theme">>, VStr("default")>>,
     <<<<"output", "auto_save">>, VBool(FALSE)>>,
     <<<<"output", "save_directory">>, VStr("~/Documents")>>,
     <<<<"output", "file_format">>, VStr("txt")>>}

\* C15: a store opened on a directory with no config.json, or an empty one,
\* returns the documented default for every default-schema path.
C15_FreshStoreHasDefaults ==
    \A i \in Stores :
        (JustOpened(i) /\ cfgFile.kind \in {"absent", "invalid"})
            => \A pv \in DocumentedDefaults :
                  Get(settings[i], defaults[i], pv[1], None) = pv[2]

\* a store was opened on an empty config.json
C15_Witness ==
    \E i \in Stores : JustOpened(i) /\ cfgFile.kind = "invalid"

\* the paths of the document doc that the mapping src does not mention:
\* src has no value at p, and no leaf above p
Unmentioned(doc, src) ==
    {p \in DocPaths(doc) :
        /\ p \notin DocPaths(src)
        /\ \A n \in 1..(Len(p) - 1) :
              SubSeq(p, 1, n) \in DocPaths(src)
                 => IsDictVal(DocGet(src, SubSeq(p, 1, n)))}

\* C16: import_settings of a readable JSON mapping returns true; every leaf
\* of the file other than api_key then has the imported value, and every
\* path of the document that the file does not mention keeps its value.
C16_ImportDeepMerges ==
    [][(last'.op = "import" /\ last'.arg = "map")
          => LET i == last'.store
                 src == StripApiKey(last'.file.doc)
                 old == Document(i)
                 new == Resolved(settings'[i], defaults'[i])
             IN  /\ last'.res = "true"
                 /\ \A p \in DocPaths(src) :
                       ~IsDictVal(DocGet(src, p)) => DocGet(new, p) = DocGet(src, p)
                 /\ \A p \in Unmentioned(old, src) : DocGet(new, p) = DocGet(old, p)]_vars

\* a file with audio.channels = 2 was imported into a store whose
\* audio.sample_rate had been set to 16000
C16_Witness ==
    /\ last.op = "import" /\ last.res = "true"
    /\ "audio" \in DOMAIN last.file.doc
    /\ DocGet(Document(last.store), <<"audio", "channels">>) = VInt(2)
    /\ DocGet(Document(last.store), <<"audio", "sample_rate">>) = VInt(16000)

\* C17: set(p, v) does not raise, whatever the dotted path p, and get(p)
\* then returns v.
C17_SetWorksForEveryPath ==
    last.op = "set"
        => /\ last.res = "ok"
           /\ Get(settings[last.store], defaults[last.store], last.keys, None) = last.value

\* the dotted paths and the defaults get is called with
GetPaths ==
    {<<"api_key">>, <<"audio">>, <<"audio", "sample_rate">>, <<"audio", "nokey">>,
     <<"audio", "sample_rate", "hz">>, <<"api_key", "x">>, <<"extra", "x">>,
     <<"missing">>}
GetDefaults == {None, VInt(7)}

RECURSIVE ValueAt(_, _)
\* the value at the end of a path that the document has
ValueAt(v, p) == IF p = <<>> THEN v ELSE ValueAt(v.d[Head(p)], Tail(p))

\* C18: get(p, d) never raises: it returns the stored value when every
\* segment of p resolves through mappings, and d as soon as a segment is
\* missing or the value reached is not a mapping.
C18_GetIsTotal ==
    \A i \in Stores : IsOpen(i) =>
        \A p \in GetPaths, d \in GetDefaults :
            Get(settings[i], defaults[i], p, d)
                = IF p \in DocPaths(Document(i))
                  THEN ValueAt(VDict(Document(i)), p)
                  ELSE d

\* a store whose audio is not a mapping and whose extra.x is stored: get
\* of audio.sample_rate gives the default, get of extra.x the value
C18_Witness ==
    \E i \in Stores :
        /\ IsOpen(i)
        /\ "audio" \in DOMAIN Document(i) /\ ~IsDictVal(Document(i).audio)
        /\ Get(settings[i], defaults[i], <<"audio", "sample_rate">>, VInt(7)) = VInt(7)
        /\ <<"extra", "x">> \in DocPaths(Document(i))
        /\ Get(settings[i], defaults[i], <<"extra", "x">>, VInt(7)) = VInt(16000)

\* the operations that change or copy the document without persisting it
UnsavedOps == {"set", "set_api_key", "reset", "import", "export"}

\* C19: only save() writes config.json: set, set_api_key,
\* reset_to_defaults, import_settings and export_settings leave the
\* contents of config.json as they were.
C19_OnlySaveWritesConfig ==
    [][last'.op \in UnsavedOps => cfgFile' = cfgFile]_vars

\* extra.x was set after a save: config.json still holds the saved
\* document, which has no extra
C19_Witness ==
    /\ last.op = "set" /\ last.res = "ok" /\ last.keys = <<"extra", "x">>
    /\ cfgFile.kind = "map"
    /\ "ui" \in DOMAIN cfgFile.doc /\ "extra" \notin DOMAIN cfgFile.doc
    /\ <<"extra", "x">> \in DocPaths(Document(last.store))

\* C20: writes of config.json are atomic: after a save, failed or not,
\* config.json holds either the complete document it held before or the
\* complete new document, never a truncated or partial one.
C20_ConfigWritesAtomic ==
    [][last'.op = "save"
          => cfgFile' \in {cfgFile, MapFile(Document(last'.store))}]_vars

(***************************************************************************)
(* Two instances on one configuration directory.                           *)
(***************************************************************************)
\* the config.json files a store can be constructed on
LoadableConfigFiles == {c \in ConfigFiles : LoadSettings(c, DefaultsTable).exc = ""}

\* the state after two instances were constructed, one after the other, on
\* a directory without a key file
InitShared ==
    \E c \in LoadableConfigFiles :
        LET ld == LoadSettings(c, DefaultsTable)
            g1 == GetEncryptionKey(File("absent"), 1)
            g2 == GetEncryptionKey(NewKeyFile(1), 2)
        IN  /\ status = [i \in Stores |-> "open"]
            /\ settings = [i \in Stores |-> ld.sett]
            /\ defaults = [i \in Stores |-> ld.dflt]
            /\ encKey = [i \in Stores |-> IF i = 1 THEN g1.key ELSE g2.key]
            /\ keyFile = NewKeyFile(1)
            /\ cfgFile = c
            /\ expFile = File("absent")
            /\ nextKey = 2
            /\ last = Did("open", 2, KeyFileState(NewKeyFile(1)), "ok", "")
            /\ ops = 0
            /\ dlg = NoDialog

\* both instances change their documents and save them, in any order
NextShared ==
    \E i \in Stores :
        \/ \E keys \in SetPaths, value \in SetValues : Set(i, keys, value)
        \/ Save(i)

SpecShared == InitShared /\ [][NextShared]_vars

\* C21: with two instances open on one directory, a save that succeeds
\* leaves config.json equal to the complete document of the instance that
\* saved, whatever the other instance saved before: nothing is merged.
C21_LastSaverWins ==
    (last.op = "save" /\ last.res = "true")
        => cfgFile = MapFile(Document(last.store))

\* an instance saved over the document the other instance had saved:
\* the extra.x of the first saver is gone from config.json
C21_Witness ==
    \E i, j \in Stores :
        /\ i # j
        /\ last.op = "save" /\ last.res = "true" /\ last.store = i
        /\ last.old = MapFile(Document(j))
        /\ <<"extra", "x">> \in DocPaths(Document(j))
        /\ <<"extra", "x">> \notin DocPaths(cfgFile.doc)

(***************************************************************************)
(* validate_api_key.  A candidate is the sequence of its characters.       *)
(***************************************************************************)
MaxPad == 18

\* n filler characters
Pad(n) == [k \in 1..n |-> "a"]
\* the beginnings of the candidates
Prefixes == {<<>>, <<"s", "k", "-">>, <<"p", "k", "-">>, <<"s", "k">>,
             <<"S", "K", "-">>, <<"x", "s", "k", "-">>}
\* the strings of test_api_key_validation
TestKey == <<"s", "k", "-", "1", "2", "3", "4", "5", "6", "7", "8", "9", "0", "a", "b", "c", "d", "e", "f">>
TestInvalidKey == <<"i", "n", "v", "a", "l", "i", "d", "-", "k", "e", "y">>
TestPkKey == <<"p", "k", "-", "1", "2", "3", "4", "5", "6", "7", "8", "9", "0", "a", "b", "c", "d", "e", "f">>
Candidates ==
    {p \o Pad(n) : p \in Prefixes, n \in 0..MaxPad}
        \cup {TestKey, TestInvalidKey, TestPkKey}

\* str.startswith
StartsWith(c, p) == Len(c) >= Len(p) /\ SubSeq(c, 1, Len(p)) = p

\* validate_api_key with len(api_key) >= 20
ValidateApiKeyFrom20(c) == StartsWith(c, <<"s", "k", "-">>) /\ Len(c) >= 20

\* validate_api_key
ValidateApiKey(c) == StartsWith(c, <<"s", "k", "-">>) /\ Len(c) > 20

\* the record of a validate_api_key
DidValidate(i, c, res) ==
    [op |-> "validate_api_key", store |-> i, arg |-> c, res |-> res, exc |-> ""]

\* validate_api_key(c) on instance i
Validate(i, c) ==
    /\ ops < MaxOps
    /\ status[i] = "open"
    /\ ops' = ops + 1
    /\ last' = DidValidate(i, c, IF ValidateApiKey(c) THEN "true" ELSE "false")
    /\ UNCHANGED <<status, settings, defaults, encKey, keyFile, cfgFile, expFile, nextKey>>
    /\ UNCHANGED dlg

NextValidate == \E i \in Stores, c \in Candidates : Validate(i, c)

SpecValidate == InitShared /\ [][NextValidate]_vars

C23_TestKeyAccepted ==
    (last.op = "validate_api_key" /\ last.arg = TestKey) => last.res = "true"

\* v is a positive integer
IsPositiveInt(v) == v.t = "int" /\ v.n > 0
\* v is a number in [0.0, 1.0] (floats are in hundredths)
IsUnitNumber(v) ==
    \/ v.t = "float" /\ v.n >= 0 /\ v.n <= 100
    \/ v.t = "int" /\ v.n \in {0, 1}

\* C24: in every reachable state of the document, audio.sample_rate,
\* audio.channels and audio.chunk_size are positive integers and
\* transcription.temperature lies in [0.0, 1.0].
C24_NumericRangesHold ==
    \A i \in Stores : IsOpen(i) =>
        /\ \A k \in {"sample_rate", "channels", "chunk_size"} :
              IsPositiveInt(DocGet(Document(i), <<"audio", k>>))
        /\ IsUnitNumber(DocGet(Document(i), <<"transcription", "temperature">>))

\* get_audio_settings, get_ui_settings, get_transcription_settings and
\* get_output_settings: self.get(name, self.defaults[name])
GetSectionSettings(sett, dflt, name) == Get(sett, dflt, <<name>>, dflt[name])

\* the sections and the keys documented for each
Sections == {"audio", "transcription", "ui", "output"}
DocumentedKeys(name) == DOMAIN DefaultsTable[name].d

\* C25: after any sequence of store operations, each of the four
\* get_*_settings returns a mapping that contains every key documented for
\* its section.
C25_SectionsExposeEveryKey ==
    \A i \in Stores : IsOpen(i) =>
        \A name \in Sections :
            LET r == GetSectionSettings(settings[i], defaults[i], name)
            IN  IsDictVal(r) /\ DocumentedKeys(name) \subseteq DOMAIN r.d

\* C26: the store's table of default values is constant: no sequence of
\* operations changes any top-level or nested value of self.defaults.
C26_DefaultsConstant ==
    \A i \in Stores : IsOpen(i) => defaults[i] = DefaultsTable

\* C27: export_settings changes nothing but the export file: the document
\* (so what get_api_key returns), the key and config.json are as before,
\* whether the export returns true or false.
C27_ExportChangesOnlyExportFile ==
    [][last'.op = "export"
          => LET i == last'.store
             IN  /\ UNCHANGED <<status, settings, defaults, encKey, keyFile, cfgFile>>
                 /\ DecryptValue(encKey'[i],
                                 Get(settings'[i], defaults'[i], <<"api_key">>, VStr("")))
                       = GetApiKey(i)]_vars

\* a store holding the credential sk-secret was exported: the file has a
\* blank api_key and get_api_key still returns sk-secret
C27_Witness ==
    /\ last.op = "export" /\ last.res = "true"
    /\ expFile.kind = "map" /\ expFile.doc.api_key = VStr("")
    /\ GetApiKey(last.store) = Ok(VStr("sk-secret"))

(***************************************************************************)
(* Two processes constructing their instance at the same time on a         *)
(* directory without .key: the steps of _get_encryption_key interleave.    *)
(* status[i] is then the position of instance i in its constructor:        *)
(* "none", "generating" (after line 69 or 75), "truncating" (key derived,  *)
(* before write_text), "writing" (file opened for writing, hence empty),   *)
(* "open".                                                                 *)
(***************************************************************************)
InitKeyRace ==
    /\ status = [i \in Stores |-> "none"]
    /\ settings = [i \in Stores |-> EmptyDict]
    /\ defaults = [i \in Stores |-> EmptyDict]
    /\ encKey = [i \in Stores |-> NoKey]
    /\ keyFile = File("absent")
    /\ cfgFile \in LoadableConfigFiles
    /\ expFile = File("absent")
    /\ nextKey = 1
    /\ last = Did("init", 0, "", "none", "")
    /\ ops = 0
    /\ dlg = NoDialog

\* lines 55 and 69-75: load the settings, then look for the key file and
\* read it if it is there
KeyCheck(i) ==
    /\ status[i] = "none"
    /\ LET ld == LoadSettings(cfgFile, DefaultsTable)
           found == keyFile.kind = "map" /\ "key" \in DOMAIN keyFile.doc
       IN  /\ settings' = [settings EXCEPT ![i] = ld.sett]
           /\ defaults' = [defaults EXCEPT ![i] = ld.dflt]
           /\ status' = [status EXCEPT ![i] = IF found THEN "open" ELSE "generating"]
           /\ encKey' = [encKey EXCEPT ![i] =
                            IF found THEN B64DecodeKeyStr(keyFile.doc.key).val ELSE @]
    /\ last' = Did("key_check", i, KeyFileState(keyFile), "ok", "")
    /\ UNCHANGED <<keyFile, cfgFile, expFile, nextKey, ops>>
    /\ UNCHANGED dlg

\* lines 78-86: derive a key from a fresh salt
KeyGenerate(i) ==
    /\ status[i] = "generating"
    /\ encKey' = [encKey EXCEPT ![i] = NewKey(nextKey)]
    /\ nextKey' = nextKey + 1
    /\ status' = [status EXCEPT ![i] = "truncating"]
    /\ last' = Did("key_generate", i, "", "ok", "")
    /\ UNCHANGED <<settings, defaults, keyFile, cfgFile, expFile, ops>>
    /\ UNCHANGED dlg

\* line 93, first half: write_text opens the file, which empties it
KeyTruncate(i) ==
    /\ status[i] = "truncating"
    /\ keyFile' = File("invalid")
    /\ status' = [status EXCEPT ![i] = "writing"]
    /\ last' = Did("key_truncate", i, "", "ok", "")
    /\ UNCHANGED <<settings, defaults, encKey, cfgFile, expFile, nextKey, ops>>
    /\ UNCHANGED dlg

\* line 93, second half, and line 94: the key data is written and the key
\* returned
KeyWrite(i) ==
    /\ status[i] = "writing"
    /\ keyFile' = MapFile([key |-> VKeyStr(encKey[i]), salt |-> VStr("<salt>")])
    /\ status' = [status EXCEPT ![i] = "open"]
    /\ last' = Did("key_write", i, "", "ok", "")
    /\ UNCHANGED <<settings, defaults, encKey, cfgFile, expFile, nextKey, ops>>
    /\ UNCHANGED dlg

NextKeyRace ==
    \E i \in Stores :
        \/ KeyCheck(i)
        \/ KeyGenerate(i)
        \/ KeyTruncate(i)
        \/ KeyWrite(i)
        \/ \E pt \in Plaintexts, iv \in Nonces : SetApiKey(i, pt, iv)
        \/ Save(i)

SpecKeyRace == InitKeyRace /\ [][NextKeyRace]_vars

\* C28: when two instances are opened concurrently on a directory without
\* .key, both end up holding the key that .key finally contains.
C28_RacingOpenersShareKey ==
    (\A i \in Stores : IsOpen(i))
        => \A i \in Stores :
              /\ keyFile.kind = "map"
              /\ IsKeyStr(keyFile.doc.key)
              /\ keyFile.doc.key.key.id = encKey[i].id

(***************************************************************************)
(* The settings dialog (modern_settings_dialog.py) and the closing of the  *)
(* main window (modern_speech_app.py), both working on the global          *)
(* instance, which is instance 1.                                          *)
(*                                                                         *)
(* dlg.form holds the Tk variables of the dialog.  A field holds the       *)
(* value its text was made from: the field sample_rate with value          *)
(* VInt(16000) is the text "16000 Hz (Good for speech)", with value        *)
(* VStr("fast") the text "fast Hz".  Blank is a Tk variable that was       *)
(* never set.  dlg.atOpen is the document when the dialog was shown and    *)
(* dlg.pressed tells whether OK or Apply was clicked since.                *)
(***************************************************************************)
App == 1

Blank == [t |-> "blank"]

\* the API keys a user types, and the characters of each
DialogKeyTexts == {"", "sk-secret", "sk-valid-key-0123456789"}
Chars(s) ==
    CASE s = "" -> <<>>
      [] s = "sk-secret" -> <<"s", "k", "-", "s", "e", "c", "r", "e", "t">>
      [] s = "sk-valid-key-0123456789" ->
            <<"s", "k", "-", "v", "a", "l", "i", "d", "-", "k", "e", "y", "-", "0", "1", "2", "3", "4", "5", "6", "7", "8", "9">>
      [] OTHER -> <<"?">>

\* the codes of language_options
LanguageCodes == {"", "en", "es", "fr", "de", "it", "pt", "nl", "pl", "ru", "ja", "ko", "zh"}

\* the variables of a dialog just created
BlankForm ==
    [api_key |-> "", language |-> Blank, temperature |-> Blank, prompt |-> Blank,
     sample_rate |-> Blank, channels |-> Blank, chunk_size |-> Blank,
     voice_threshold |-> Blank, auto_save |-> Blank, save_directory |-> Blank,
     file_format |-> Blank, window_geometry |-> Blank]

\* section.get(k, d) in _load_current_settings
SecGet(sec, k, d) == IF k \in DOMAIN sec.d THEN sec.d[k] ELSE d

\* _load_current_settings: the form it leaves and the exception it raises
\* when a get_*_settings result has no method get
LoadCurrentSettings(sett, dflt, key, form) ==
    LET ts == GetSectionSettings(sett, dflt, "transcription")
        au == GetSectionSettings(sett, dflt, "audio")
        ou == GetSectionSettings(sett, dflt, "output")
        ui == GetSectionSettings(sett, dflt, "ui")
        f1 == [form EXCEPT !.api_key =
                  DecryptValue(key, Get(sett, dflt, <<"api_key">>, VStr(""))).val.s]
        f2 == [f1 EXCEPT !.language = SecGet(ts, "language", VStr("en")),
                         !.temperature = SecGet(ts, "temperature", VFloat(0)),
                         !.prompt = SecGet(ts, "prompt", VStr(""))]
        f3 == [f2 EXCEPT !.sample_rate = SecGet(au, "sample_rate", VInt(44100)),
                         !.channels = SecGet(au, "channels", VInt(1)),
                         !.chunk_size = SecGet(au, "chunk_size", VInt(1024)),
                         !.voice_threshold = SecGet(au, "voice_threshold", VFloat(2))]
        f4 == [f3 EXCEPT !.auto_save = SecGet(ou, "auto_save", VBool(FALSE)),
                         !.save_directory = SecGet(ou, "save_directory", VStr("")),
                         !.file_format = SecGet(ou, "file_format", VStr("txt"))]
        f5 == [f4 EXCEPT !.window_geometry = SecGet(ui, "window_geometry", VStr("1200x900"))]
    IN  IF ~IsDictVal(ts) THEN [exc |-> "AttributeError", form |-> f1]
        ELSE IF ~IsDictVal(au) THEN [exc |-> "AttributeError", form |-> f2]
        ELSE IF ~IsDictVal(ou) THEN [exc |-> "AttributeError", form |-> f3]
        ELSE IF ~IsDictVal(ui) THEN [exc |-> "AttributeError", form |-> f4]
        ELSE [exc |-> "", form |-> f5]

\* what _save_settings makes of a field before storing it
Convert(kind, v) ==
    CASE kind = "language" ->
            \* language_mapping.get(display, "en")
            Ok(IF IsStr(v) /\ v.s \in LanguageCodes THEN v ELSE VStr("en"))
      [] kind = "double" ->
            \* DoubleVar.get()
            IF v = Blank THEN Ok(VFloat(0))
            ELSE IF v.t = "float" THEN Ok(v)
            ELSE IF v.t = "int" THEN Ok(VFloat(100 * v.n))
            ELSE Raise("TclError")
      [] kind = "text" ->
            \* StringVar.get()
            Ok(IF v = Blank THEN VStr("") ELSE IF IsStr(v) THEN v ELSE VStr("<repr>"))
      [] kind = "sample_rate" ->
            \* int(text.split()[0]) on "<value> Hz ..."
            IF v = Blank THEN Raise("IndexError")
            ELSE IF v.t = "int" THEN Ok(v)
            ELSE Raise("ValueError")
      [] kind = "channels" ->
            \* 1 if "1 (" in text else 2
            Ok(IF v = VInt(1) THEN VInt(1) ELSE VInt(2))
      [] kind = "chunk_size" ->
            \* int(text.split()[0]) on "<value> ..."
            IF v = Blank \/ v = VStr("") THEN Raise("IndexError")
            ELSE IF v.t = "int" THEN Ok(v)
            ELSE Raise("ValueError")
      [] kind = "bool" ->
            \* BooleanVar.get()
            IF v = Blank THEN Ok(VBool(FALSE))
            ELSE IF v.t = "bool" THEN Ok(v)
            ELSE IF v.t = "int" THEN Ok(VBool(v.n # 0))
            ELSE Raise("TclError")
      [] kind = "first_word" ->
            \* text.split()[0]
            IF v = Blank \/ v = VStr("") THEN Raise("IndexError")
            ELSE Ok(IF IsStr(v) THEN v ELSE VStr("<repr>"))

\* the settings.set calls of _save_settings after the API key, in order
SaveSteps ==
    <<[path |-> <<"transcription", "language">>, field |-> "language", kind |-> "language"],
      [path |-> <<"transcription", "temperature">>, field |-> "temperature", kind |-> "double"],
      [path |-> <<"transcription", "prompt">>, field |-> "prompt", kind |-> "text"],
      [path |-> <<"audio", "sample_rate">>, field |-> "sample_rate", kind |-> "sample_rate"],
      [path |-> <<"audio", "channels">>, field |-> "channels", kind |-> "channels"],
      [path |-> <<"audio", "chunk_size">>, field |-> "chunk_size", kind |-> "chunk_size"],
      [path |-> <<"audio", "voice_threshold">>, field |-> "voice_threshold", kind |-> "double"],
      [path |-> <<"output", "auto_save">>, field |-> "auto_save", kind |-> "bool"],
      [path |-> <<"output", "save_directory">>, field |-> "save_directory", kind |-> "text"],
      [path |-> <<"output", "file_format">>, field |-> "file_format", kind |-> "first_word"],
      [path |-> <<"ui", "window_geometry">>, field |-> "window_geometry", kind |-> "text"]>>

\* how far _save_settings got: "done" (every set made), "false" (returned
\* False: cause InvalidApiKey or ValueError) or "raised" (an exception that
\* its except clause does not catch)
Stopped(res, exc, sett, dflt) == [res |-> res, exc |-> exc, sett |-> sett, dflt |-> dflt]

RECURSIVE ApplySteps(_, _, _, _)
ApplySteps(sett, dflt, form, steps) ==
    IF steps = <<>> THEN Stopped("done", "", sett, dflt)
    ELSE LET s == Head(steps)
             c == Convert(s.kind, form[s.field])
         IN  IF c.exc = "ValueError" THEN Stopped("false", "ValueError", sett, dflt)
             ELSE IF c.exc # "" THEN Stopped("raised", c.exc, sett, dflt)
             ELSE LET r == SetPath(sett, dflt, s.path, c.val)
                  IN  IF r.exc = "ValueError" THEN Stopped("false", "ValueError", sett, dflt)
                      ELSE IF r.exc # "" THEN Stopped("raised", r.exc, sett, dflt)
                      ELSE ApplySteps(r.sett, r.dflt, form, Tail(steps))

\* _save_settings up to its call of save_settings (lines 803-851)
SaveSettings(sett, dflt, key, form, iv) ==
    IF form.api_key # "" /\ ~ValidateApiKey(Chars(form.api_key))
    THEN Stopped("false", "InvalidApiKey", sett, dflt)
    ELSE LET e == EncryptValue(key, VStr(form.api_key), iv)
         IN  IF e.exc = "ValueError" THEN Stopped("false", "ValueError", sett, dflt)
             ELSE IF e.exc # "" THEN Stopped("raised", e.exc, sett, dflt)
             ELSE LET r == SetPath(sett, dflt, <<"api_key">>, e.val)
                  IN  ApplySteps(r.sett, r.dflt, form, SaveSteps)

\* the files the user picks in the dialog's Import
DialogImportFiles ==
    {File("unreadable"),
     MapFile([audio |-> VDict([channels |-> VInt(2)])]),
     MapFile([audio |-> VDict([sample_rate |-> VStr("fast")])]),
     MapFile([audio |-> VInt(5)])}
\* the sample rates of the combobox that the user picks
DialogSampleRates == {VInt(16000)}
\* root.geometry() when the main window closes
ClosingGeometries == {"800x600+10+10"}

\* the application after its start: the global instance constructed on a
\* directory with or without a key file, no dialog
InitDialog ==
    \E c \in LoadableConfigFiles,
       kf \in {File("absent"), MapFile([key |-> OldKeyText, salt |-> VStr("<salt>")])} :
        LET ld == LoadSettings(c, DefaultsTable)
            gk == GetEncryptionKey(kf, 1)
        IN  /\ status = [i \in Stores |-> IF i = App THEN "open" ELSE "none"]
            /\ settings = [i \in Stores |-> IF i = App THEN ld.sett ELSE EmptyDict]
            /\ defaults = [i \in Stores |-> IF i = App THEN ld.dflt ELSE EmptyDict]
            /\ encKey = [i \in Stores |-> IF i = App THEN gk.key ELSE NoKey]
            /\ keyFile = IF gk.generated THEN NewKeyFile(1) ELSE kf
            /\ cfgFile = c
            /\ expFile = File("absent")
            /\ nextKey = IF gk.generated THEN 2 ELSE 1
            /\ last = Did("open", App, KeyFileState(kf), "ok", "")
            /\ ops = 0
            /\ dlg = NoDialog

\* show(): create the dialog and load the current settings into it
DialogShow ==
    /\ ops < MaxOps
    /\ status[App] = "open" /\ ~dlg.open
    /\ ops' = ops + 1
    /\ LET ld == LoadCurrentSettings(settings[App], defaults[App], encKey[App], BlankForm)
       IN  /\ dlg' = [open |-> TRUE, form |-> ld.form, atOpen |-> Document(App),
                      pressed |-> FALSE]
           /\ last' = Did("dialog_show", App, "", IF ld.exc = "" THEN "ok" ELSE "raised", ld.exc)
    /\ UNCHANGED <<status, settings, defaults, encKey, keyFile, cfgFile, expFile, nextKey>>

\* the user types an API key
DialogEditApiKey(text) ==
    /\ ops < MaxOps
    /\ status[App] = "open" /\ dlg.open
    /\ ops' = ops + 1
    /\ dlg' = [dlg EXCEPT !.form.api_key = text]
    /\ last' = Did("dialog_edit", App, "api_key", "ok", "")
    /\ UNCHANGED <<status, settings, defaults, encKey, keyFile, cfgFile, expFile, nextKey>>

\* the user picks a sample rate
DialogSelectSampleRate(v) ==
    /\ ops < MaxOps
    /\ status[App] = "open" /\ dlg.open
    /\ ops' = ops + 1
    /\ dlg' = [dlg EXCEPT !.form.sample_rate = v]
    /\ last' = Did("dialog_edit", App, "sample_rate", "ok", "")
    /\ UNCHANGED <<status, settings, defaults, encKey, keyFile, cfgFile, expFile, nextKey>>

\* _import_settings with the file f picked
DialogImport(f) ==
    /\ ops < MaxOps
    /\ status[App] = "open" /\ dlg.open
    /\ ops' = ops + 1
    /\ LET r == ImportSettings(settings[App], defaults[App], f)
           ld == LoadCurrentSettings(r.sett, r.dflt, encKey[App], dlg.form)
       IN  /\ settings' = [settings EXCEPT ![App] = r.sett]
           /\ defaults' = [defaults EXCEPT ![App] = r.dflt]
           /\ IF r.res = "true"
              THEN /\ dlg' = [dlg EXCEPT !.form = ld.form]
                   /\ last' = Did("dialog_import", App, f.kind,
                                  IF ld.exc = "" THEN "true" ELSE "raised", ld.exc)
              ELSE /\ dlg' = dlg
                   /\ last' = Did("dialog_import", App, f.kind, r.res, r.exc)
    /\ UNCHANGED <<status, encKey, keyFile, cfgFile, expFile, nextKey>>

\* _reset_to_defaults, confirmed
DialogReset ==
    /\ ops < MaxOps
    /\ status[App] = "open" /\ dlg.open
    /\ ops' = ops + 1
    /\ LET sett == ShallowCopyDefaults(defaults[App])
           ld == LoadCurrentSettings(sett, defaults[App], encKey[App], dlg.form)
       IN  /\ settings' = [settings EXCEPT ![App] = sett]
           /\ dlg' = [dlg EXCEPT !.form = ld.form]
           /\ last' = Did("dialog_reset", App, "", IF ld.exc = "" THEN "ok" ELSE "raised", ld.exc)
    /\ UNCHANGED <<status, defaults, encKey, keyFile, cfgFile, expFile, nextKey>>

\* _on_ok (closes = TRUE) and _on_apply (closes = FALSE): _save_settings,
\* whose last step is save_settings; iv is the nonce Fernet draws
DialogSave(op, closes, iv) ==
    /\ ops < MaxOps
    /\ status[App] = "open" /\ dlg.open
    /\ ops' = ops + 1
    /\ LET s == SaveSettings(settings[App], defaults[App], encKey[App], dlg.form, iv)
       IN  /\ settings' = [settings EXCEPT ![App] = s.sett]
           /\ defaults' = [defaults EXCEPT ![App] = s.dflt]
           /\ IF s.res = "done"
              THEN \E w \in WriteOutcomes(cfgFile, Resolved(s.sett, s.dflt)) :
                      /\ cfgFile' = w.file
                      /\ last' = Did(op, App, "", w.res,
                                     IF w.res = "false" THEN "IOError" ELSE "")
                      /\ dlg' = [dlg EXCEPT !.pressed = TRUE,
                                            !.open = ~(closes /\ w.res = "true")]
              ELSE /\ cfgFile' = cfgFile
                   /\ last' = Did(op, App, "", s.res, s.exc)
                   /\ dlg' = [dlg EXCEPT !.pressed = TRUE]
    /\ UNCHANGED <<status, encKey, keyFile, expFile, nextKey>>

DialogOk(iv) == DialogSave("dialog_ok", TRUE, iv)
DialogApply(iv) == DialogSave("dialog_apply", FALSE, iv)

\* _on_cancel
DialogCancel ==
    /\ ops < MaxOps
    /\ status[App] = "open" /\ dlg.open
    /\ ops' = ops + 1
    /\ dlg' = [dlg EXCEPT !.open = FALSE]
    /\ last' = Did("dialog_cancel", App, "", "ok", "")
    /\ UNCHANGED <<status, settings, defaults, encKey, keyFile, cfgFile, expFile, nextKey>>

\* on_closing of the main window (the dialog is modal, so it is closed):
\* the geometry is set and the settings are saved
OnClosing(g) ==
    /\ ops < MaxOps
    /\ status[App] = "open" /\ ~dlg.open
    /\ ops' = ops + 1
    /\ status' = [status EXCEPT ![App] = "closed"]
    /\ LET r == SetPath(settings[App], defaults[App], <<"ui", "window_geometry">>, VStr(g))
       IN  IF r.exc # ""
           THEN /\ last' = Did("on_closing", App, g, "raised", r.exc)
                /\ UNCHANGED <<settings, defaults, cfgFile>>
           ELSE /\ settings' = [settings EXCEPT ![App] = r.sett]
                /\ defaults' = [defaults EXCEPT ![App] = r.dflt]
                /\ \E w \in WriteOutcomes(cfgFile, Resolved(r.sett, r.dflt)) :
                      /\ cfgFile' = w.file
                      /\ last' = Did("on_closing", App, g, w.res, "")
    /\ UNCHANGED <<encKey, keyFile, expFile, nextKey, dlg>>

NextDialog ==
    \/ DialogShow
    \/ \E text \in DialogKeyTexts : DialogEditApiKey(text)
    \/ \E v \in DialogSampleRates : DialogSelectSampleRate(v)
    \/ \E f \in DialogImportFiles : DialogImport(f)
    \/ DialogReset
    \/ \E iv \in Nonces : DialogOk(iv)
    \/ \E iv \in Nonces : DialogApply(iv)
    \/ DialogCancel
    \/ \E g \in ClosingGeometries : OnClosing(g)

SpecDialog == InitDialog /\ [][NextDialog]_vars

\* C29: the dialog's save step is all-or-nothing: whenever _save_settings
\* returns False for an invalid API-key format or a ValueError, the
\* in-memory store is as it was before the call and config.json is not
\* written.
C29_DialogSaveAllOrNothing ==
    [][(/\ last'.op \in {"dialog_ok", "dialog_apply"}
        /\ last'.res = "false"
        /\ last'.exc \in {"InvalidApiKey", "ValueError"})
          => UNCHANGED <<settings, defaults, cfgFile>>]_vars

\* C30: closing the dialog with Cancel, without OK or Apply, discards
\* everything done in it: the in-memory store equals its state when the
\* dialog was opened, and the config.json written at the next window close
\* holds that state (with the window geometry).
C30_CancelDiscardsChanges ==
    /\ (last.op = "dialog_cancel" /\ ~dlg.pressed) => Document(App) = dlg.atOpen
    /\ (/\ last.op = "on_closing" /\ last.res = "true"
        /\ "pressed" \in DOMAIN dlg /\ ~dlg.pressed)
          => \A p \in DocPaths(cfgFile.doc) \cup DocPaths(dlg.atOpen) :
                p # <<"ui", "window_geometry">>
                   => DocGet(cfgFile.doc, p) = DocGet(dlg.atOpen, p)

====
